---- MODULE Spec2Model ----
(***************************************************************************)
(* Model of proxy/types.go: the Services sort interface (Len, Less, Swap), *)
(* User.HasPassword, RandomUser and ExtractUsersFromString.                *)
(*                                                                         *)
(* A Go string is a sequence of one-character strings; "" is << >>.        *)
(***************************************************************************)
EXTENDS Integers, Sequences, FiniteSets, TLC

VARIABLES
    pc,                 \* position of the running operation
    context,            \* ExtractUsersFromString argument
    usersString,        \* ExtractUsersFromString argument
    encrypted,          \* ExtractUsersFromString argument
    skipEmptyPassword,  \* ExtractUsersFromString argument
    users,              \* local: result of strings.FieldsFunc
    idx,                \* local: position of the range loop (1-based)
    collectedUsers,     \* local / return value
    logs,               \* what logPrintf has been called with, in order
    randomUser,         \* the *User returned by the last RandomUser call
    rawServices,        \* the raw (aclName, serviceName) inputs, in input order
    slice,              \* the Services slice
    pass,               \* which sort of the slice is running (1 or 2)
    first,              \* the slice as the first sort left it
    adjacentOnly,       \* every Swap so far exchanged out-of-order neighbours
    rawService,         \* raw field values of the last construction
    built,              \* the descriptor the last construction returned
    buildErr            \* the error the last construction returned

userVars == <<context, usersString, encrypted, skipEmptyPassword, users, idx,
              collectedUsers, logs>>
sortVars == <<rawServices, slice, pass, first, adjacentOnly>>
buildVars == <<rawService, built, buildErr>>
vars == <<pc, userVars, randomUser, sortVars, buildVars>>

-----------------------------------------------------------------------------
(* Bounds *)

MaxLen == 5         \* longest usersString
MaxRand == 120      \* largest value drawn from rand.Int63
MaxServices == 3    \* most descriptors in a Services slice

-----------------------------------------------------------------------------
(* Strings *)

EmptyString == << >>

Min(S) == CHOOSE x \in S : \A y \in S : x <= y
Max(S) == CHOOSE x \in S : \A y \in S : x >= y

StringsUpTo(alphabet, n) == UNION {[1..k -> alphabet] : k \in 0..n}

\* strings.Trim(s, cutset)
Trim(s, cutset) ==
    LET keep == {i \in 1..Len(s) : s[i] \notin cutset}
    IN  IF keep = {} THEN EmptyString ELSE SubSeq(s, Min(keep), Max(keep))

\* strings.Contains(s, c) for a one-character c
Contains(s, c) == \E i \in 1..Len(s) : s[i] = c

\* strings.Index(s, c) for a one-character c: 0-based, -1 when absent
Index(s, c) ==
    LET hits == {i \in 1..Len(s) : s[i] = c}
    IN  IF hits = {} THEN -1 ELSE Min(hits) - 1

\* Go's s[lo:hi] with 0-based lo, exclusive hi
Slice(s, lo, hi) == SubSeq(s, lo + 1, hi)

-----------------------------------------------------------------------------
(* ExtractUsersFromString *)

Contexts == {"sn", "other"}
UserAlphabet == {"a", ":", ",", "\n", "\t", " "}

splitter(x) == x = "\n" \/ x = ","

RECURSIVE FieldsFuncFrom(_, _, _, _)
FieldsFuncFrom(s, i, cur, acc) ==
    IF i > Len(s)
    THEN IF cur = EmptyString THEN acc ELSE Append(acc, cur)
    ELSE IF splitter(s[i])
         THEN FieldsFuncFrom(s, i + 1, EmptyString,
                             IF cur = EmptyString THEN acc ELSE Append(acc, cur))
         ELSE FieldsFuncFrom(s, i + 1, Append(cur, s[i]), acc)

\* strings.FieldsFunc(usersString, splitter)
FieldsFunc(s) == FieldsFuncFrom(s, 1, EmptyString, << >>)

UserCutsetSpaceOnly == {" "}
UserCutset == {"\n", "\t", " "}

HalfCutset == {"\t", " "}

IndexLast(s, c) ==
    LET hits == {i \in 1..Len(s) : s[i] = c}
    IN  IF hits = {} THEN -1 ELSE Max(hits) - 1
colonIndexLast(user) == IndexLast(user, ":")
colonIndex(user) == Index(user, ":")

userName(user) == Trim(Slice(user, 0, colonIndex(user)), HalfCutset)
userPass(user) == Trim(Slice(user, colonIndex(user) + 1, Len(user)), HalfCutset)

InvalidOnlyIfBothEmpty(name, password) == Len(name) = 0 /\ Len(password) = 0
Invalid(name, password) == Len(name) = 0 \/ Len(password) = 0

ColonUserNeverEncrypted(name, password, enc) ==
    [Username |-> name, Password |-> password, PassEncrypted |-> FALSE]
ColonUser(name, password, enc) ==
    [Username |-> name, Password |-> password, PassEncrypted |-> enc]

\* &User{Username: user}: the other fields keep their zero values
BareUser(user) ==
    [Username |-> user, Password |-> EmptyString, PassEncrypted |-> FALSE]

appendFront(s, e) == <<e>> \o s
append(s, e) == Append(s, e)

InvalidFormat(ctx) == [format |-> "invalid user", context |-> ctx, user |-> EmptyString]
NoPassword(ctx, user) == [format |-> "no password", context |-> ctx, user |-> user]

UsersInit ==
    /\ context \in Contexts
    /\ usersString \in StringsUpTo(UserAlphabet, MaxLen)
    /\ encrypted \in BOOLEAN
    /\ skipEmptyPassword \in BOOLEAN
    /\ users = << >>
    /\ idx = 1
    /\ collectedUsers = << >>
    /\ logs = << >>

\* lines 135-138: nothing to parse
ReturnEmpty ==
    /\ pc = "start"
    /\ Len(usersString) = 0
    /\ pc' = "done"
    /\ UNCHANGED <<userVars, randomUser, sortVars, buildVars>>

\* lines 139-142
Split ==
    /\ pc = "start"
    /\ Len(usersString) # 0
    /\ users' = FieldsFunc(usersString)
    /\ idx' = 1
    /\ pc' = "loop"
    /\ UNCHANGED <<context, usersString, encrypted, skipEmptyPassword,
                   collectedUsers, logs, randomUser, sortVars, buildVars>>

\* lines 143-169: one iteration of the range loop
LoopBody ==
    /\ pc = "loop"
    /\ idx <= Len(users)
    /\ LET user == Trim(users[idx], UserCutset)
       IN  IF Len(user) = 0
           THEN UNCHANGED <<collectedUsers, logs>>
           ELSE IF Contains(user, ":")
           THEN IF Invalid(userName(user), userPass(user))
                THEN /\ logs' = Append(logs, InvalidFormat(context))
                     /\ UNCHANGED collectedUsers
                ELSE /\ collectedUsers' =
                            append(collectedUsers,
                                   ColonUser(userName(user), userPass(user), encrypted))
                     /\ UNCHANGED logs
           ELSE IF Len(user) = 0
                THEN /\ logs' = Append(logs, InvalidFormat(context))
                     /\ UNCHANGED collectedUsers
                ELSE IF skipEmptyPassword
                THEN /\ logs' = Append(logs, NoPassword(context, user))
                     /\ UNCHANGED collectedUsers
                ELSE IF ~skipEmptyPassword
                THEN /\ collectedUsers' = append(collectedUsers, BareUser(user))
                     /\ UNCHANGED logs
                ELSE UNCHANGED <<collectedUsers, logs>>
    /\ idx' = idx + 1
    /\ UNCHANGED <<pc, context, usersString, encrypted, skipEmptyPassword, users,
                   randomUser, sortVars, buildVars>>

\* line 170
Return ==
    /\ pc = "loop"
    /\ idx > Len(users)
    /\ pc' = "done"
    /\ UNCHANGED <<userVars, randomUser, sortVars, buildVars>>

-----------------------------------------------------------------------------
(* User.HasPassword and RandomUser *)

UpperToLower == ("A" :> "a" @@ "B" :> "b")
Fold(c) == IF c \in DOMAIN UpperToLower THEN UpperToLower[c] ELSE c

\* strings.EqualFold(s, t)
EqualFold(s, t) ==
    /\ Len(s) = Len(t)
    /\ \A i \in 1..Len(s) : Fold(s[i]) = Fold(t[i])

HasPassword(user) == ~EqualFold(user.Password, EmptyString)

Digits == <<"0", "1", "2", "3", "4", "5", "6", "7", "8", "9">>

RECURSIVE FormatBits(_, _)
FormatBits(u, base) ==
    IF u < base
    THEN <<Digits[u + 1]>>
    ELSE Append(FormatBits(u \div base, base), Digits[(u % base) + 1])

FormatIntZeroIsEmpty(i, base) ==
    IF i = 0 THEN EmptyString
    ELSE IF i < 0 THEN <<"-">> \o FormatBits(-i, base) ELSE FormatBits(i, base)
\* strconv.FormatInt(i, base)
FormatInt(i, base) ==
    IF i < 0 THEN <<"-">> \o FormatBits(-i, base) ELSE FormatBits(i, base)

PasswordBase == 3

\* the values rand.Int63() is drawn from
Int63 == 0..MaxRand

NoUser == [Username |-> EmptyString, Password |-> EmptyString, PassEncrypted |-> FALSE]

RandomUserResult(r) ==
    [Username |-> <<"d", "u", "m", "m", "y", "U", "s", "e", "r">>,
     PassEncrypted |-> TRUE,
     Password |-> FormatInt(r, PasswordBase)]

RandomUser ==
    /\ pc = "random"
    /\ \E r \in Int63 : randomUser' = RandomUserResult(r)
    /\ UNCHANGED <<pc, userVars, sortVars, buildVars>>

-----------------------------------------------------------------------------
(* Service construction *)

NoError == "nil"
MissingCoDependentField == "MissingCoDependentField"

NoService ==
    [AclName |-> EmptyString, ServiceName |-> EmptyString,
     ReqPathSearch |-> EmptyString, ReqPathReplace |-> EmptyString,
     TemplateFePath |-> EmptyString, TemplateBePath |-> EmptyString,
     ConsulTemplateFePath |-> EmptyString, ConsulTemplateBePath |-> EmptyString]

ServiceNames == {<<"a">>, <<"b">>, <<"a", "b">>, <<"B">>}
AclNames == {EmptyString, <<"a">>, <<"a", "b">>, <<"B">>}
Paths == {EmptyString, <<"p">>}

RawServices ==
    [AclName : AclNames, ServiceName : ServiceNames,
     ReqPathSearch : Paths, ReqPathReplace : Paths,
     TemplateFePath : Paths, TemplateBePath : Paths,
     ConsulTemplateFePath : Paths, ConsulTemplateBePath : Paths]

\* raw inputs that set no path-rewrite or template field
PlainServices ==
    {r \in RawServices :
        /\ r.ReqPathSearch = EmptyString /\ r.ReqPathReplace = EmptyString
        /\ r.TemplateFePath = EmptyString /\ r.TemplateBePath = EmptyString
        /\ r.ConsulTemplateFePath = EmptyString
        /\ r.ConsulTemplateBePath = EmptyString}

\* exactly one field of a co-required pair is set
LonePair(x, y) == (x = EmptyString) # (y = EmptyString)

MissingCoDependent(raw) ==
    \/ LonePair(raw.ReqPathSearch, raw.ReqPathReplace)
    \/ LonePair(raw.TemplateFePath, raw.TemplateBePath)
    \/ LonePair(raw.ConsulTemplateFePath, raw.ConsulTemplateBePath)

DefaultAclNameKeepBlank(raw) == raw.AclName
DefaultAclName(raw) ==
    IF Len(raw.AclName) = 0 THEN raw.ServiceName ELSE raw.AclName

NewServiceKeepLoneField(raw) ==
    [service |-> [raw EXCEPT !.AclName = DefaultAclName(raw)], err |-> NoError]
\* construction of a descriptor from raw field values
NewService(raw) ==
    IF MissingCoDependent(raw)
    THEN [service |-> NoService, err |-> MissingCoDependentField]
    ELSE [service |-> [raw EXCEPT !.AclName = DefaultAclName(raw)],
          err |-> NoError]

Construct ==
    /\ pc = "construct"
    /\ \E raw \in RawServices :
          /\ rawService' = raw
          /\ built' = NewService(raw).service
          /\ buildErr' = NewService(raw).err
    /\ UNCHANGED <<pc, userVars, randomUser, sortVars>>

-----------------------------------------------------------------------------
(* Services: Len, Less, Swap, and the sort that drives them *)

Byte == ("B" :> 66 @@ "a" :> 97 @@ "b" :> 98 @@ "p" :> 112)

\* Go's s < t on strings: byte-wise comparison
RECURSIVE StringLess(_, _)
StringLess(s, t) ==
    IF t = EmptyString THEN FALSE
    ELSE IF s = EmptyString THEN TRUE
    ELSE IF Head(s) = Head(t) THEN StringLess(Tail(s), Tail(t))
    ELSE Byte[Head(s)] < Byte[Head(t)]

ServicesLen(s) == Len(s)

\* indices are Go's, 0-based
LessOrEqual(s, i, j) ==
    \/ s[i + 1].AclName = s[j + 1].AclName
    \/ StringLess(s[i + 1].AclName, s[j + 1].AclName)
LessDescending(s, i, j) == StringLess(s[j + 1].AclName, s[i + 1].AclName)
Less(s, i, j) == StringLess(s[i + 1].AclName, s[j + 1].AclName)

Swap(s, i, j) == [s EXCEPT ![i + 1] = s[j + 1], ![j + 1] = s[i + 1]]

Indices(s) == 0..(ServicesLen(s) - 1)

\* the sort has nothing left to do: no later element is Less than an earlier one
Ordered(s) == \A i, j \in Indices(s) : i < j => ~Less(s, j, i)

UsedNames == {rawServices[k].ServiceName : k \in 1..Len(rawServices)}

\* a reconfiguration pass assembles one more descriptor
AddService ==
    /\ pc = "build"
    /\ Len(slice) < MaxServices
    /\ \E raw \in PlainServices :
          /\ raw.ServiceName \notin UsedNames
          /\ NewService(raw).err = NoError
          /\ rawServices' = Append(rawServices, raw)
          /\ slice' = Append(slice, NewService(raw).service)
    /\ UNCHANGED <<pc, pass, first, adjacentOnly, userVars, randomUser, buildVars>>

\* sort.Sort(slice) is called
StartSort ==
    /\ pc = "build"
    /\ pc' = "sort"
    /\ UNCHANGED <<sortVars, userVars, randomUser, buildVars>>

\* The sort exchanges two positions that Less does not report to be in order:
\* an out-of-order pair, or a pair with equal keys (the sort need not be stable).
SortSwap ==
    /\ pc = "sort"
    /\ \E i, j \in Indices(slice) :
          /\ i < j
          /\ \/ Less(slice, j, i)
             \/ ~Less(slice, i, j) /\ ~Less(slice, j, i)
          /\ slice' = Swap(slice, i, j)
          /\ adjacentOnly' = (adjacentOnly /\ j = i + 1 /\ Less(slice, j, i))
    /\ UNCHANGED <<pc, rawServices, pass, first, userVars, randomUser, buildVars>>

\* The sort returns; the slice is then sorted a second time.
SortReturn ==
    /\ pc = "sort"
    /\ Ordered(slice)
    /\ IF pass = 1
       THEN /\ first' = slice
            /\ pass' = 2
            /\ UNCHANGED pc
       ELSE /\ pc' = "done"
            /\ UNCHANGED <<first, pass>>
    /\ UNCHANGED <<rawServices, slice, adjacentOnly, userVars, randomUser, buildVars>>

-----------------------------------------------------------------------------
(* Specifications *)

UsersIdle ==
    /\ context = "sn"
    /\ usersString = EmptyString
    /\ encrypted = FALSE
    /\ skipEmptyPassword = FALSE
    /\ users = << >>
    /\ idx = 1
    /\ collectedUsers = << >>
    /\ logs = << >>

SortIdle ==
    /\ rawServices = << >>
    /\ slice = << >>
    /\ pass = 1
    /\ first = << >>
    /\ adjacentOnly = TRUE

BuildIdle ==
    /\ rawService = NoService
    /\ built = NoService
    /\ buildErr = NoError

\* ExtractUsersFromString, called once on any arguments
Init ==
    /\ pc = "start"
    /\ UsersInit
    /\ randomUser = NoUser
    /\ SortIdle
    /\ BuildIdle

Next == ReturnEmpty \/ Split \/ LoopBody \/ Return

Spec == Init /\ [][Next]_vars

\* RandomUser, called any number of times
RandomInit ==
    /\ pc = "random"
    /\ UsersIdle
    /\ randomUser = NoUser
    /\ SortIdle
    /\ BuildIdle

RandomNext == RandomUser

SpecRandom == RandomInit /\ [][RandomNext]_vars

\* descriptors are assembled into a Services slice, which is then sorted twice
ServicesInit ==
    /\ pc = "build"
    /\ UsersIdle
    /\ randomUser = NoUser
    /\ SortIdle
    /\ BuildIdle

ServicesNext == AddService \/ StartSort \/ SortSwap \/ SortReturn

SpecServices == ServicesInit /\ [][ServicesNext]_vars

\* one descriptor is constructed from any raw field values
ConstructInit ==
    /\ pc = "construct"
    /\ UsersIdle
    /\ randomUser = NoUser
    /\ SortIdle
    /\ BuildIdle

ConstructNext == Construct

SpecConstruct == ConstructInit /\ [][ConstructNext]_vars

-----------------------------------------------------------------------------
(* Vocabulary of the properties, stated on the raw input *)

Delimiters == {"\n", ","}
TokenBlanks == {"\n", "\t", " "}
HalfBlanks == {"\t", " "}

\* the token is non-empty after trimming
NonBlank(t) == \E i \in 1..Len(t) : t[i] \notin TokenBlanks

HasColon(t) == \E i \in 1..Len(t) : t[i] = ":"

FirstColon(t) ==
    CHOOSE i \in 1..Len(t) : t[i] = ":" /\ \A j \in 1..(i - 1) : t[j] # ":"

BeforeColon(t) == SubSeq(t, 1, FirstColon(t) - 1)
AfterColon(t) == SubSeq(t, FirstColon(t) + 1, Len(t))

AllBlank(s, blanks) == \A i \in 1..Len(s) : s[i] \in blanks

\* s without its leading and trailing blanks
Stripped(s, blanks) ==
    IF AllBlank(s, blanks) THEN EmptyString
    ELSE LET lo == CHOOSE i \in 1..Len(s) :
                      s[i] \notin blanks /\ \A j \in 1..(i - 1) : s[j] \in blanks
             hi == CHOOSE i \in 1..Len(s) :
                      s[i] \notin blanks /\ \A j \in (i + 1)..Len(s) : s[j] \in blanks
         IN  [k \in 1..(hi - lo + 1) |-> s[lo + k - 1]]

NoEdgeBlank(s) ==
    s # EmptyString => s[1] \notin HalfBlanks /\ s[Len(s)] \notin HalfBlanks

\* when a non-blank token is dropped
Dropped(t, skip) ==
    IF HasColon(t)
    THEN AllBlank(BeforeColon(t), HalfBlanks) \/ AllBlank(AfterColon(t), HalfBlanks)
    ELSE skip

\* the name and password a token stands for: none, or one
TokenCredential(t, skip) ==
    IF ~NonBlank(t) \/ Dropped(t, skip) THEN << >>
    ELSE IF HasColon(t)
    THEN <<[Username |-> Stripped(BeforeColon(t), HalfBlanks),
            Password |-> Stripped(AfterColon(t), HalfBlanks)]>>
    ELSE <<[Username |-> Stripped(t, TokenBlanks), Password |-> EmptyString]>>

\* the maximal runs of non-delimiter characters of raw, as <<lo, hi>>
Runs(raw) ==
    {r \in (1..Len(raw)) \X (1..Len(raw)) :
        /\ r[1] <= r[2]
        /\ \A i \in r[1]..r[2] : raw[i] \notin Delimiters
        /\ r[1] = 1 \/ raw[r[1] - 1] \in Delimiters
        /\ r[2] = Len(raw) \/ raw[r[2] + 1] \in Delimiters}

RECURSIVE ExpectedFrom(_, _, _)
ExpectedFrom(raw, R, skip) ==
    IF R = {} THEN << >>
    ELSE LET r == CHOOSE x \in R : \A y \in R : x[1] <= y[1]
         IN  TokenCredential(SubSeq(raw, r[1], r[2]), skip)
                \o ExpectedFrom(raw, R \ {r}, skip)

Expected(raw, skip) == ExpectedFrom(raw, Runs(raw), skip)

NamesAndPasswords(us) ==
    [k \in 1..Len(us) |-> [Username |-> us[k].Username, Password |-> us[k].Password]]

Last(s) == s[Len(s)]
Front(s) == SubSeq(s, 1, Len(s) - 1)

\* the loop is about to handle a token that is non-empty after trimming
AtToken == pc = "loop" /\ idx <= Len(users)

-----------------------------------------------------------------------------
(* Properties of ExtractUsersFromString *)

\* C1 (as stated): every returned User has PassEncrypted equal to the encrypted
\* argument, whether it came from a name:password token or from a bare name.
C1_EncryptedAlways ==
    \A k \in 1..Len(collectedUsers) : collectedUsers[k].PassEncrypted = encrypted

\* C1 (amended): a User built from a name:password token has PassEncrypted equal
\* to the encrypted argument; a password-less User built from a bare name has
\* PassEncrypted false, whatever the argument.
C1_EncryptedUnlessBare ==
    \A k \in 1..Len(collectedUsers) :
        collectedUsers[k].PassEncrypted =
            IF collectedUsers[k].Password # EmptyString THEN encrypted ELSE FALSE

C1_Witness ==
    /\ pc = "done"
    /\ encrypted
    /\ \E k, l \in 1..Len(collectedUsers) :
          /\ collectedUsers[k].Password # EmptyString
          /\ collectedUsers[k].PassEncrypted
          /\ collectedUsers[l].Password = EmptyString
          /\ ~collectedUsers[l].PassEncrypted

C2_Step ==
    (AtToken /\ NonBlank(users[idx])) =>
        IF Dropped(users[idx], skipEmptyPassword)
        THEN /\ collectedUsers' = collectedUsers
             /\ Len(logs') = Len(logs) + 1
             /\ Front(logs') = logs
             /\ Last(logs').context = context
        ELSE /\ logs' = logs
             /\ Len(collectedUsers') = Len(collectedUsers) + 1
             /\ Front(collectedUsers') = collectedUsers
             /\ ~HasColon(users[idx]) =>
                   /\ Last(collectedUsers').Username = Stripped(users[idx], TokenBlanks)
                   /\ Last(collectedUsers').Password = EmptyString

\* C2: a token that is non-empty after trimming either appends exactly one User or
\* is dropped with exactly one diagnostic for the context; it is dropped exactly
\* when it has a colon and an empty name or password half, or has no colon and
\* skipEmptyPassword is set; a bare name otherwise yields one User with that name
\* and the empty password.
C2_OneOutcomePerToken == [][C2_Step]_vars

C2_Witness ==
    /\ pc = "done"
    /\ Len(users) = 2
    /\ Len(logs) = 1
    /\ Len(collectedUsers) = 1
    /\ collectedUsers[1].Password = EmptyString

\* C3: the result is the tokens' credentials in left-to-right order, dropped
\* tokens removed, nothing deduplicated; a dropped token changes no other entry.
C3_OrderPreserved ==
    pc = "done" =>
        NamesAndPasswords(collectedUsers) = Expected(usersString, skipEmptyPassword)

C3_Witness ==
    /\ pc = "done"
    /\ Len(users) = 3
    /\ Len(logs) = 1
    /\ Len(collectedUsers) = 2
    /\ collectedUsers[1] = collectedUsers[2]

C4_Step ==
    (AtToken /\ HasColon(users[idx]) /\ collectedUsers' # collectedUsers) =>
        /\ Last(collectedUsers').Username = Stripped(BeforeColon(users[idx]), HalfBlanks)
        /\ Last(collectedUsers').Password = Stripped(AfterColon(users[idx]), HalfBlanks)

C4_NoEdgeBlanks ==
    \A k \in 1..Len(collectedUsers) :
        /\ NoEdgeBlank(collectedUsers[k].Username)
        /\ NoEdgeBlank(collectedUsers[k].Password)

\* C4: an accepted token with a colon gives the text before its first colon as the
\* name and all the text after it as the password, each without leading and
\* trailing tabs and spaces; later colons stay in the password, and no returned
\* name or password begins or ends with a tab or a space.
C4_SplitAtFirstColon == [][C4_Step]_vars /\ []C4_NoEdgeBlanks

C4_Witness ==
    /\ pc = "done"
    /\ Len(collectedUsers) = 1
    /\ Contains(collectedUsers[1].Password, ":")
    /\ Len(collectedUsers[1].Username) + Len(collectedUsers[1].Password) + 1
          < Len(users[1])

C9_Step ==
    (AtToken /\ ~NonBlank(users[idx])) => UNCHANGED <<collectedUsers, logs>>

C9_BlankInput ==
    (pc = "done" /\ AllBlank(usersString, TokenBlanks \cup Delimiters)) =>
        collectedUsers = << >> /\ logs = << >>

\* C9: input with no non-blank token (the empty string included) yields the empty
\* result and no diagnostic; a token that is empty after trimming is discarded
\* without a User and without a diagnostic.
C9_BlankTokensDiscarded == [][C9_Step]_vars /\ []C9_BlankInput

C9_Witness ==
    /\ pc = "done"
    /\ Len(users) = 2
    /\ ~NonBlank(users[1])
    /\ collectedUsers = << >>
    /\ logs = << >>

-----------------------------------------------------------------------------
(* Properties of RandomUser *)

IsDigit(c) == \E d \in 1..Len(Digits) : Digits[d] = c

\* C10: whatever rand.Int63 returns, RandomUser returns the name "dummyUser",
\* PassEncrypted set, and a non-empty password of digits, so HasPassword holds.
C10_Placeholder ==
    randomUser # NoUser =>
        /\ randomUser.Username = <<"d", "u", "m", "m", "y", "U", "s", "e", "r">>
        /\ randomUser.PassEncrypted
        /\ randomUser.Password # EmptyString
        /\ \A i \in 1..Len(randomUser.Password) : IsDigit(randomUser.Password[i])
        /\ HasPassword(randomUser)

C10_Witness == randomUser # NoUser /\ randomUser.Password = <<"0">>

-----------------------------------------------------------------------------
(* Properties of descriptors and of the Services sort *)

\* the descriptors in the order they were assembled
Input == [k \in 1..Len(rawServices) |-> NewService(rawServices[k]).service]

Occurrences(s, x) == Cardinality({k \in 1..Len(s) : s[k] = x})

IsPermutation(s, t) ==
    /\ Len(s) = Len(t)
    /\ \A k \in 1..Len(t) : Occurrences(s, t[k]) = Occurrences(t, t[k])

\* s <= t in the lexicographic order of code points
LexLeq(s, t) ==
    \/ Len(s) <= Len(t) /\ \A i \in 1..Len(s) : s[i] = t[i]
    \/ \E k \in 1..Min({Len(s), Len(t)}) :
          /\ \A i \in 1..(k - 1) : s[i] = t[i]
          /\ Byte[s[k]] < Byte[t[k]]

NonDecreasing(s) ==
    \A k \in 1..(Len(s) - 1) : LexLeq(s[k].AclName, s[k + 1].AclName)

AclNamesOf(s) == [k \in 1..Len(s) |-> s[k].AclName]

InputPosition(svc) ==
    LET at == {p \in 1..Len(rawServices) :
                  rawServices[p].ServiceName = svc.ServiceName}
    IN  IF at = {} THEN 0 ELSE Min(at)

HasTies(s) == \E k, l \in 1..Len(s) : k < l /\ s[k].AclName = s[l].AclName

TiesInInputOrder(s) ==
    \A k, l \in 1..Len(s) :
        (k < l /\ s[k].AclName = s[l].AclName) =>
            InputPosition(s[k]) < InputPosition(s[l])

C7_AclNameNeverEmpty ==
    /\ \A k \in 1..Len(slice) : slice[k].AclName # EmptyString
    /\ \A p \in 1..Len(rawServices) :
          rawServices[p].AclName = EmptyString =>
              \E k \in 1..Len(slice) :
                  /\ slice[k].ServiceName = rawServices[p].ServiceName
                  /\ slice[k].AclName = rawServices[p].ServiceName

C7_Witness ==
    /\ pc = "done"
    /\ \E p \in 1..Len(rawServices) : rawServices[p].AclName = EmptyString

OneOf(x, y) ==
    \/ x # EmptyString /\ y = EmptyString
    \/ x = EmptyString /\ y # EmptyString

HasLoneField(d) ==
    \/ OneOf(d.ReqPathSearch, d.ReqPathReplace)
    \/ OneOf(d.TemplateFePath, d.TemplateBePath)
    \/ OneOf(d.ConsulTemplateFePath, d.ConsulTemplateBePath)

\* C8: a construction in which exactly one field of a co-required pair is set
\* returns an error and no descriptor; a descriptor that is returned has no lone
\* field and carries the pair fields it was given.
C8_LoneFieldIsAnError ==
    rawService # NoService =>
        /\ HasLoneField(rawService) =>
              buildErr = MissingCoDependentField /\ built = NoService
        /\ buildErr = NoError =>
              /\ ~HasLoneField(built)
              /\ built.ReqPathSearch = rawService.ReqPathSearch
              /\ built.ReqPathReplace = rawService.ReqPathReplace
              /\ built.TemplateFePath = rawService.TemplateFePath
              /\ built.TemplateBePath = rawService.TemplateBePath
              /\ built.ConsulTemplateFePath = rawService.ConsulTemplateFePath
              /\ built.ConsulTemplateBePath = rawService.ConsulTemplateBePath

C8_Witness ==
    /\ rawService.ReqPathSearch # EmptyString
    /\ rawService.ReqPathReplace = EmptyString
    /\ buildErr = MissingCoDependentField
    /\ built = NoService

====
